---- MODULE Spec2Model ----
\* A model of tornet.py: the command line front end (main), the dependency
\* checks, the rotation loop (change_ip_repeatedly), the rotate operation on
\* both platforms, the IP oracle and the signal handler with its cleanup.
\*
\* The interpreter's control state is a call stack of contexts: stack[1] is the
\* position of main, every further entry is an invocation of signal_handler
\* that interrupted the context below it.  A position names the statement the
\* context is executing (or is about to execute); an exception raised in a
\* context abandons that statement.
EXTENDS Integers, Sequences, FiniteSets, TLC

\* ---------------------------------------------------------------- bounds
\* longest --interval text that is drawn
MaxLen == 3
\* largest --count that is drawn (the smallest is -1)
MaxCount == 2
\* cycles after which the model stops following an endless loop (count == 0)
MaxCycles == 3
\* signals delivered in one run
MaxSignals == 2

\* ------------------------------------------------- text of --interval
Digits == {"0", "1"}

Chars == Digits \cup {"-", "x"}

Strs == UNION {[1..k -> Chars] : k \in 0..MaxLen}

DigitVal(c) == IF c = "1" THEN 1 ELSE 0

AllDigits(s) == \A i \in 1..Len(s) : s[i] \in Digits

RECURSIVE DecVal(_)
DecVal(s) == IF Len(s) = 0 THEN 0
             ELSE 10 * DecVal(SubSeq(s, 1, Len(s) - 1)) + DigitVal(s[Len(s)])

\* int(s) raises ValueError unless s is an optional sign followed by digits
IntOk(s) == \/ (Len(s) >= 1 /\ AllDigits(s))
            \/ (Len(s) >= 2 /\ s[1] = "-" /\ AllDigits(Tail(s)))

IntVal(s) == IF s[1] = "-" THEN 0 - DecVal(Tail(s)) ELSE DecVal(s)

HasHyphen(s) == \E i \in 1..Len(s) : s[i] = "-"

FirstHyphen(s) == CHOOSE i \in 1..Len(s) : s[i] = "-" /\ \A j \in 1..(i - 1) : s[j] # "-"

\* str.split("-", 1): the text before and after the first hyphen
SplitLeft(s) == SubSeq(s, 1, FirstHyphen(s) - 1)

SplitRight(s) == SubSeq(s, FirstHyphen(s) + 1, Len(s))

\* a draw that leaves out the upper end, as random.randrange(a, b) would
randint_HalfOpen(a, b) == a..(b - 1)

\* random.randint(a, b): any integer of a..b; ValueError when the range is empty
randint(a, b) == a..b

\* parse_interval: the set of values it can return; the empty set stands for
\* the ValueError path, which ends in error(..., 8)
parse_interval(s) ==
    IF HasHyphen(s)
    THEN IF IntOk(SplitLeft(s)) /\ IntOk(SplitRight(s))
         THEN randint(IntVal(SplitLeft(s)), IntVal(SplitRight(s)))
         ELSE {}
    ELSE IF IntOk(s) THEN {IntVal(s)} ELSE {}

\* ---------------------------------------------------------------- state
VARIABLES
    platform,      \* platform.system().lower(): "windows" or "linux" (any non-Windows system)
    mode,          \* the branch main takes: "none" before parse_args, then one of Modes
    stack,         \* the contexts: <<position of main, position of a handler, ...>>
    exitCode,      \* the exit status of the process, NoExit while it runs
    interval_str,  \* argument of change_ip_repeatedly
    count,         \* argument of change_ip_repeatedly
    started,       \* cycles of the loop begun
    done,          \* cycles of the loop completed
    sleep_time,    \* local of change_ip_repeatedly: the delay of the latest cycle
    rot,           \* outcome of this cycle's rotate operation: "none", "ok", "failed"
    oracle,        \* the IP oracle was called since the cycle began
    report,        \* print_ip was called since the cycle began
    warned,        \* warning() was called since the cycle began
    new_ip,        \* value of get_current_ip()/change_ip(): "None" or "ip"
    sock,          \* control connections change_ip_windows holds open
    slept,         \* the sleep of the cycle has completed
    ret,           \* where is_tor_running returns to
    running,       \* value is_tor_running returned: "True", "False" or "None"
    daemonUp,      \* whether the daemon really ran when it was last probed
    path,          \* how the oracle was last asked: "none", "tor", "direct"
    signals,       \* signals delivered so far
    intInCycle,    \* a signal was delivered while main stood inside a cycle
    stopRuns,      \* invocations of stop_services so far
    fatalCond,     \* the first fatal condition error() was called for
    fatalCode      \* the exit code error() was given for it

ctl == <<stack, exitCode>>

argv == <<platform, mode, interval_str, count>>

loopv == <<started, done, sleep_time>>

cyc == <<rot, oracle, report, new_ip, sock, slept>>

probe == <<ret, running, daemonUp, path>>

fatal == <<fatalCond, fatalCode>>

sigs == <<signals, intInCycle>>

vars == <<platform, mode, stack, exitCode, interval_str, count, started, done,
          sleep_time, rot, oracle, report, warned, new_ip, sock, slept, ret, running,
          daemonUp, path, signals, intInCycle, stopRuns, fatalCond, fatalCode>>

NoExit == 0 - 1

Modes == {"stop", "ip", "auto_fix", "run"}

Top == stack[Len(stack)]

InMain == Len(stack) = 1

Exited == exitCode # NoExit

\* ------------------------------------------------------- control transfer
\* Positions inside a try block whose bare "except:" also catches SystemExit,
\* and the position the except clause continues at.
Guarded == {"ss_taskkill", "ss_pkill", "itr_tasklist", "itr_socket",
            "ep_ensurepip", "ep_pm", "et_install"}

Catch(p) == CASE p = "ss_taskkill"  -> "ss_pkill"
              [] p = "ss_pkill"     -> "ss_log"
              [] p = "itr_tasklist" -> "itr_psutil"
              [] p = "itr_socket"   -> "itr_false"
              [] p = "ep_ensurepip" -> "ep_pm"
              [] p = "ep_pm"        -> "ep_fail"
              [] p = "et_install"   -> "et_fail"
              [] OTHER              -> p

\* SystemExit(code) raised in the top context of stk: it is caught where the
\* context stands in a guarded try block, leaves a handler for the context the
\* handler interrupted, and ends the process when it leaves main.
RECURSIVE Unwind(_, _)
Unwind(stk, code) ==
    IF stk[Len(stk)] \in Guarded
    THEN [stack |-> [stk EXCEPT ![Len(stk)] = Catch(stk[Len(stk)])], exit |-> NoExit]
    ELSE IF Len(stk) = 1
         THEN [stack |-> <<"exited">>, exit |-> code]
         ELSE Unwind(SubSeq(stk, 1, Len(stk) - 1), code)

\* sys.exit(code) executed by the top context while it stands at position site
sys_exit(site, code) ==
    LET r == Unwind([stack EXCEPT ![Len(stack)] = site], code)
    IN  stack' = r.stack /\ exitCode' = r.exit

\* error(msg, exit_code) with exit_code > 0.  The first condition that has a
\* code of its own is remembered; run_cmd's error for a failed command has the
\* default code 1 and every caller of run_cmd(check=True) wraps it in a try.
error(site, cond, code) ==
    /\ sys_exit(site, code)
    /\ fatalCond' = (IF fatalCond = "none" /\ cond # "command" THEN cond ELSE fatalCond)
    /\ fatalCode' = (IF fatalCond = "none" /\ cond # "command" THEN code ELSE fatalCode)

Goto(p) == stack' = [stack EXCEPT ![Len(stack)] = p] /\ exitCode' = exitCode

Init ==
    /\ platform \in {"windows", "linux"}
    /\ mode = "none"
    /\ stack = <<"import">>
    /\ exitCode = NoExit
    /\ interval_str = <<>>
    /\ count = 0
    /\ started = 0
    /\ done = 0
    /\ sleep_time = 0
    /\ rot = "none"
    /\ oracle = FALSE
    /\ report = FALSE
    /\ warned = FALSE
    /\ new_ip = "None"
    /\ sock = 0
    /\ slept = FALSE
    /\ ret = "none"
    /\ running = "None"
    /\ daemonUp = FALSE
    /\ path = "none"
    /\ signals = 0
    /\ intInCycle = FALSE
    /\ stopRuns = 0
    /\ fatalCond = "none"
    /\ fatalCode = 0

\* ------------------------------------------------------------- start-up
\* "import requests" at module level: without the package the ImportError is
\* not caught and the interpreter exits with status 1
Import ==
    /\ Top = "import"
    /\ \E present \in BOOLEAN :
          IF present THEN Goto("setup") ELSE sys_exit("import", 1)
    /\ UNCHANGED <<argv, loopv, cyc, warned, probe, sigs, stopRuns, fatal>>

setup_signal_handlers ==
    /\ Top = "setup"
    /\ Goto("parse_args")
    /\ UNCHANGED <<argv, loopv, cyc, warned, probe, sigs, stopRuns, fatal>>

\* where is_tor_running starts
ItrEntry == IF platform = "windows" THEN "itr_tasklist" ELSE "itr_posix"

\* main, from parse_args to the branch of the selected flag
ParseArgs ==
    /\ Top = "parse_args"
    /\ \E m \in Modes :
          /\ mode' = m
          /\ Goto(CASE m = "stop"     -> "main_stop"
                    [] m = "ip"       -> ItrEntry
                    [] m = "auto_fix" -> "ep_check"
                    [] m = "run"      -> "m_deps")
          /\ ret' = (IF m = "ip" THEN "gci" ELSE ret)
    /\ UNCHANGED <<platform, interval_str, count, loopv, cyc, warned, running,
                   daemonUp, path, sigs, stopRuns, fatal>>

\* main returns and the interpreter exits with status 0
MainReturn ==
    /\ Top = "main_return"
    /\ stack' = <<"exited">>
    /\ exitCode' = 0
    /\ UNCHANGED <<argv, loopv, cyc, warned, probe, sigs, stopRuns, fatal>>

\* ------------------------------------------------------ service control
\* detect_service_manager(): what the system offers when it is asked
ServiceManagers == {"systemctl", "service", "none"}

\* is_root() / has_sudo() as run_cmd(use_sudo=True) sees them
Privileges == {"root", "sudo", "none"}

\* service_action(action) called at position site, continuing at next.  With
\* no service manager it ends in error(..., 3); run_cmd ends in error(..., 2)
\* when the process is not root and sudo is missing; a non-zero return code of
\* the command is a warning.  Only the reload of a cycle sets rot.
service_action(site, next) ==
    IF platform = "windows"
    THEN /\ Goto(next)
         /\ warned' = TRUE
         /\ UNCHANGED <<rot, fatal>>
    ELSE \E mgr \in ServiceManagers, priv \in Privileges, rc \in {0, 1} :
            IF mgr = "none"
            THEN error(site, "service_manager", 3) /\ UNCHANGED <<rot, warned>>
            ELSE IF priv = "none"
                 THEN error(site, "sudo", 2) /\ UNCHANGED <<rot, warned>>
                 ELSE /\ Goto(next)
                      /\ warned' = (warned \/ rc # 0)
                      /\ rot' = (IF site = "ci_reload"
                                 THEN (IF rc = 0 THEN "ok" ELSE "failed")
                                 ELSE rot)
                      /\ UNCHANGED fatal

\* ------------------------------------------------- stop_services, signals
\* main stands inside a cycle, after the delay was resolved
InCycle ==
    \/ stack[1] \in {"cr_sleep", "ci_reload", "ci_settle", "cw_connect",
                     "cw_newnym", "cw_settle", "gci", "cr_report"}
    \/ (ret = "gci" /\ stack[1] \in {"itr_posix", "itr_tasklist", "itr_psutil",
                                     "itr_socket", "itr_false"})

\* A signal with a registered handler arrives: signal_handler starts on top of
\* whatever was running (main or an earlier invocation of the handler).
Signal ==
    /\ ~Exited
    /\ stack[1] \notin {"import", "setup"}
    /\ signals < MaxSignals
    /\ signals' = signals + 1
    /\ intInCycle' = (intInCycle \/ InCycle)
    /\ stack' = Append(stack, "signal_handler")
    /\ UNCHANGED <<exitCode, argv, loopv, cyc, warned, probe, stopRuns, fatal>>

\* stop_services() is entered, from main (--stop) or from signal_handler
StopServicesEnter ==
    /\ Top \in {"main_stop", "signal_handler"}
    /\ stopRuns' = stopRuns + 1
    /\ Goto(IF platform = "windows" THEN "ss_taskkill" ELSE "ss_service")
    /\ UNCHANGED <<argv, loopv, cyc, warned, probe, sigs, fatal>>

\* Windows: taskkill inside try/except; a failure is a warning
SsTaskkill ==
    /\ Top = "ss_taskkill"
    /\ \E ok \in BOOLEAN : warned' = (warned \/ ~ok)
    /\ Goto("ss_pkill")
    /\ UNCHANGED <<argv, loopv, cyc, probe, sigs, stopRuns, fatal>>

\* elsewhere: service_action("stop")
SsService ==
    /\ Top = "ss_service"
    /\ service_action("ss_service", "ss_pkill")
    /\ UNCHANGED <<argv, loopv, oracle, report, new_ip, sock, slept, probe, sigs, stopRuns>>

\* pkill inside try/except: pass
SsPkill ==
    /\ Top = "ss_pkill"
    /\ Goto("ss_log")
    /\ UNCHANGED <<argv, loopv, cyc, warned, probe, sigs, stopRuns, fatal>>

\* stop_services returns: main returns after it, signal_handler goes on to
\* sys.exit(0)
SsReturn ==
    /\ Top = "ss_log"
    /\ IF InMain THEN Goto("main_return") ELSE sys_exit("sh_exit", 0)
    /\ UNCHANGED <<argv, loopv, cyc, warned, probe, sigs, stopRuns, fatal>>

\* ---------------------------------------------------------------- --auto-fix
PackageManagers == {"apt", "dnf", "yum", "pacman", "apk", "zypper", "none"}

\* install_package(name) called at position site, continuing at next, where
\* detect_package_manager() finds one of pms: no package manager (or Windows)
\* ends in error(..., 4), a missing sudo in error(..., 2) and a failed command
\* in error(...) with the default code 1
install_package(site, next, pms) ==
    IF platform = "windows"
    THEN error(site, "package_manager", 4)
    ELSE \E pm \in pms, priv \in Privileges, ok \in BOOLEAN :
            IF pm = "none" THEN error(site, "package_manager", 4)
            ELSE IF priv = "none" THEN error(site, "sudo", 2)
            ELSE IF ~ok THEN error(site, "command", 1)
            ELSE Goto(next) /\ UNCHANGED fatal

\* ensure_pip: is pip importable?
EnsurePipCheck ==
    /\ Top = "ep_check"
    /\ \E have \in BOOLEAN : Goto(IF have THEN "ensure_requests" ELSE "ep_ensurepip")
    /\ UNCHANGED <<argv, loopv, cyc, warned, probe, sigs, stopRuns, fatal>>

\* ensure_pip: python -m ensurepip inside try/except: pass
EnsurePipEnsurepip ==
    /\ Top = "ep_ensurepip"
    /\ \E ok \in BOOLEAN :
          IF ok THEN Goto("ensure_requests") /\ UNCHANGED fatal
          ELSE error("ep_ensurepip", "command", 1)
    /\ UNCHANGED <<argv, loopv, cyc, warned, probe, sigs, stopRuns>>

\* ensure_pip: the system package manager, inside try/except: error(..., 5).
\* With no package manager no branch is taken and the function returns True;
\* with one, install_package finds it again.
EnsurePipPackage ==
    /\ Top = "ep_pm"
    /\ IF platform = "windows"
       THEN error("ep_pm", "pip", 5)
       ELSE \/ Goto("ensure_requests") /\ UNCHANGED fatal
            \/ install_package("ep_pm", "ensure_requests", PackageManagers \ {"none"})
    /\ UNCHANGED <<argv, loopv, cyc, warned, probe, sigs, stopRuns>>

EnsurePipFail ==
    /\ Top = "ep_fail"
    /\ error("ep_fail", "pip", 5)
    /\ UNCHANGED <<argv, loopv, cyc, warned, probe, sigs, stopRuns>>

\* ensure_requests: the module was imported at start-up, so the import succeeds
EnsureRequests ==
    /\ Top = "ensure_requests"
    /\ Goto("et_check")
    /\ UNCHANGED <<argv, loopv, cyc, warned, probe, sigs, stopRuns, fatal>>

\* ensure_tor: is_tor_installed(), and the Windows refusal
EnsureTorCheck ==
    /\ Top = "et_check"
    /\ \E installed \in BOOLEAN :
          IF installed THEN Goto("af_done") /\ UNCHANGED fatal
          ELSE IF platform = "windows" THEN error("et_check", "tor_install", 7)
          ELSE Goto("et_install") /\ UNCHANGED fatal
    /\ UNCHANGED <<argv, loopv, cyc, warned, probe, sigs, stopRuns>>

\* ensure_tor: install_package("tor") inside try/except: error(..., 7)
EnsureTorInstall ==
    /\ Top = "et_install"
    /\ install_package("et_install", "af_done", PackageManagers)
    /\ UNCHANGED <<argv, loopv, cyc, warned, probe, sigs, stopRuns>>

EnsureTorFail ==
    /\ Top = "et_fail"
    /\ error("et_fail", "tor_install", 7)
    /\ UNCHANGED <<argv, loopv, cyc, warned, probe, sigs, stopRuns>>

AutoFixDone ==
    /\ Top = "af_done"
    /\ Goto("main_return")
    /\ UNCHANGED <<argv, loopv, cyc, warned, probe, sigs, stopRuns, fatal>>

\* ------------------------------------------------------- is_tor_running
\* Not Windows: no branch of the function is taken and it returns None
ItrPosix ==
    /\ Top = "itr_posix"
    /\ running' = "None"
    /\ \E up \in BOOLEAN : daemonUp' = up
    /\ Goto(ret)
    /\ UNCHANGED <<argv, loopv, cyc, warned, ret, path, sigs, stopRuns, fatal>>

\* Windows: tasklist inside try/except; any exception leads to the psutil probe
ItrTasklist ==
    /\ Top = "itr_tasklist"
    /\ \E up \in BOOLEAN, ok \in BOOLEAN :
          /\ daemonUp' = up
          /\ IF ok
             THEN running' = (IF up THEN "True" ELSE "False") /\ Goto(ret)
             ELSE running' = running /\ Goto("itr_psutil")
    /\ UNCHANGED <<argv, loopv, cyc, warned, ret, path, sigs, stopRuns, fatal>>

\* Windows: psutil, when it can be imported; ImportError leads to the socket probe
ItrPsutil ==
    /\ Top = "itr_psutil"
    /\ \E up \in BOOLEAN, have \in BOOLEAN :
          /\ daemonUp' = up
          /\ IF have
             THEN running' = (IF up THEN "True" ELSE "False") /\ Goto(ret)
             ELSE running' = running /\ Goto("itr_socket")
    /\ UNCHANGED <<argv, loopv, cyc, warned, ret, path, sigs, stopRuns, fatal>>

\* Windows: connect_ex to the SOCKS port inside try/except: return False
ItrSocket ==
    /\ Top = "itr_socket"
    /\ \E up \in BOOLEAN, ok \in BOOLEAN :
          /\ daemonUp' = up
          /\ IF ok
             THEN running' = (IF up THEN "True" ELSE "False") /\ Goto(ret)
             ELSE running' = running /\ Goto("itr_false")
    /\ UNCHANGED <<argv, loopv, cyc, warned, ret, path, sigs, stopRuns, fatal>>

\* Windows: the except clause of the socket probe
ItrFalse ==
    /\ Top = "itr_false"
    /\ running' = "False"
    /\ Goto(ret)
    /\ UNCHANGED <<argv, loopv, cyc, warned, ret, daemonUp, path, sigs, stopRuns, fatal>>

\* ------------------------------------------------------------ the IP oracle
\* the path get_current_ip takes for a value of is_tor_running()
OraclePath(r) == IF r = "True" THEN "tor" ELSE "direct"

\* get_current_ip after is_tor_running returned: get_ip_via_tor or
\* get_ip_direct, either of which returns the address or warns and returns None
get_current_ip ==
    /\ Top = "gci"
    /\ path' = OraclePath(running)
    /\ oracle' = TRUE
    /\ \E got \in BOOLEAN :
          /\ new_ip' = (IF got THEN "ip" ELSE "None")
          /\ warned' = (warned \/ ~got)
    /\ Goto(IF mode = "ip" THEN "ip_print" ELSE "cr_report")
    /\ UNCHANGED <<argv, loopv, rot, report, sock, slept, ret, running, daemonUp,
                   sigs, stopRuns, fatal>>

\* main --ip: print the address when there is one
IpPrint ==
    /\ Top = "ip_print"
    /\ report' = (new_ip = "ip")
    /\ Goto("main_return")
    /\ UNCHANGED <<argv, loopv, rot, oracle, new_ip, sock, slept, warned, probe,
                   sigs, stopRuns, fatal>>

\* ------------------------------------------------ main, the default branch
\* is_tor_installed() or error(..., 10); the import of requests that follows
\* succeeds because the module imported it at start-up
MainDeps ==
    /\ Top = "m_deps"
    /\ \E installed \in BOOLEAN :
          IF installed THEN Goto("m_internet") /\ UNCHANGED fatal
          ELSE error("m_deps", "tor_missing", 10)
    /\ UNCHANGED <<argv, loopv, cyc, warned, probe, sigs, stopRuns>>

\* check_internet_connection() or error(..., 9); then print_banner and the
\* platform branch of initialize_environment
check_internet_connection ==
    /\ Top = "m_internet"
    /\ \E online \in BOOLEAN :
          IF online
          THEN /\ Goto(IF platform = "windows" THEN ItrEntry ELSE "ie_start")
               /\ ret' = (IF platform = "windows" THEN "ie_after1" ELSE ret)
               /\ UNCHANGED fatal
          ELSE error("m_internet", "internet", 9) /\ ret' = ret
    /\ UNCHANGED <<argv, loopv, cyc, warned, running, daemonUp, path, sigs, stopRuns>>

\* initialize_environment, not Windows: service_action("start")
InitEnvStart ==
    /\ Top = "ie_start"
    /\ service_action("ie_start", "m_wait")
    /\ UNCHANGED <<argv, loopv, oracle, report, new_ip, sock, slept, probe, sigs, stopRuns>>

\* initialize_environment, Windows: after the first probe wait 10 s when the
\* daemon does not run, check the configuration, and probe again
InitEnvAfter1 ==
    /\ Top = "ie_after1"
    /\ warned' = (warned \/ running # "True")
    /\ Goto(ItrEntry)
    /\ ret' = "ie_after2"
    /\ UNCHANGED <<argv, loopv, cyc, running, daemonUp, path, sigs, stopRuns, fatal>>

\* initialize_environment, Windows: after the second probe only messages
InitEnvAfter2 ==
    /\ Top = "ie_after2"
    /\ warned' = (warned \/ running # "True")
    /\ Goto("m_wait")
    /\ UNCHANGED <<argv, loopv, cyc, probe, sigs, stopRuns, fatal>>

\* the values --count is drawn from
Counts == (0 - 1)..MaxCount

\* main: time.sleep(5), then change_ip_repeatedly(args.interval, args.count)
MainWait ==
    /\ Top = "m_wait"
    /\ \E i \in Strs, c \in Counts : interval_str' = i /\ count' = c
    /\ Goto("cr_head")
    /\ UNCHANGED <<platform, mode, loopv, cyc, warned, probe, sigs, stopRuns, fatal>>

\* ------------------------------------------------------ the rotation loop
\* a loop test that lets one iteration too many through, as range(count + 1) would
LoopContinues_OneMore(c, n) == IF c = 0 THEN TRUE ELSE n <= c

\* The loop test of change_ip_repeatedly after n iterations were begun:
\* "while True" for count == 0, "for _ in range(count)" otherwise
LoopContinues(c, n) == IF c = 0 THEN TRUE ELSE n < c

\* a loop body that rotates first and sleeps afterwards: the cycle goes from
\* the resolved delay straight to the rotate operation
CycleStart_RotateFirst ==
    /\ Top = "cr_head"
    /\ LoopContinues(count, started)
    /\ (count = 0 => started < MaxCycles)
    /\ started' = started + 1
    /\ rot' = "none" /\ oracle' = FALSE /\ report' = FALSE /\ warned' = FALSE
    /\ new_ip' = "None" /\ slept' = FALSE
    /\ running' = "None" /\ daemonUp' = FALSE /\ path' = "none"
    /\ IF parse_interval(interval_str) = {}
       THEN error("cr_parse", "interval", 8) /\ sleep_time' = sleep_time
       ELSE /\ \E x \in parse_interval(interval_str) : sleep_time' = x
            /\ Goto(IF platform = "windows" THEN "cw_connect" ELSE "ci_reload")
            /\ UNCHANGED fatal
    /\ UNCHANGED <<argv, done, sock, ret, sigs, stopRuns>>

\* A cycle begins: parse_interval(interval_str) gives the delay or, on
\* ValueError, ends in error(..., 8).  What the model recorded about the
\* previous cycle is forgotten.
CycleStart ==
    /\ Top = "cr_head"
    /\ LoopContinues(count, started)
    /\ (count = 0 => started < MaxCycles)
    /\ started' = started + 1
    /\ rot' = "none" /\ oracle' = FALSE /\ report' = FALSE /\ warned' = FALSE
    /\ new_ip' = "None" /\ slept' = FALSE
    /\ running' = "None" /\ daemonUp' = FALSE /\ path' = "none"
    /\ IF parse_interval(interval_str) = {}
       THEN error("cr_parse", "interval", 8) /\ sleep_time' = sleep_time
       ELSE /\ \E x \in parse_interval(interval_str) : sleep_time' = x
            /\ Goto("cr_sleep")
            /\ UNCHANGED fatal
    /\ UNCHANGED <<argv, done, sock, ret, sigs, stopRuns>>

\* The loop is exhausted: change_ip_repeatedly returns, and main after it
LoopReturn ==
    /\ Top = "cr_head"
    /\ ~LoopContinues(count, started)
    /\ Goto("main_return")
    /\ UNCHANGED <<argv, loopv, cyc, warned, probe, sigs, stopRuns, fatal>>

\* time.sleep(sleep_time) completes and change_ip() selects the platform's
\* rotate operation
CycleSleep ==
    /\ Top = "cr_sleep"
    /\ slept' = TRUE
    /\ Goto(IF platform = "windows" THEN "cw_connect" ELSE "ci_reload")
    /\ UNCHANGED <<argv, loopv, rot, oracle, report, new_ip, sock, warned, probe,
                   sigs, stopRuns, fatal>>

\* change_ip, not Windows: service_action("reload")
ChangeIpReload ==
    /\ Top = "ci_reload"
    /\ service_action("ci_reload", "ci_settle")
    /\ UNCHANGED <<argv, loopv, oracle, report, new_ip, sock, slept, probe, sigs, stopRuns>>

\* change_ip, not Windows: time.sleep(2), then get_current_ip() whatever the
\* reload did
ChangeIpSettle ==
    /\ Top = "ci_settle"
    /\ Goto(ItrEntry)
    /\ ret' = "gci"
    /\ UNCHANGED <<argv, loopv, cyc, warned, running, daemonUp, path, sigs,
                   stopRuns, fatal>>

\* what the connection to the control port can come to
ConnectOutcomes == {"connected", "refused", "timeout", "error"}

\* A socket that change_ip_windows drops without close() when an except clause
\* returns: the interpreter closes it when it reclaims the object, which the
\* language leaves open to happen at once or later.  The number of such
\* sockets still open when the call is back in the loop.
LeftOpen == {0, 1}

\* change_ip_windows: the socket is created and connected; each exception is a
\* warning and None, and no close() is on that path
ChangeIpWindowsConnect ==
    /\ Top = "cw_connect"
    /\ \E o \in ConnectOutcomes :
          IF o = "connected"
          THEN /\ sock' = sock + 1
               /\ Goto("cw_newnym") /\ UNCHANGED <<rot, warned>>
          ELSE /\ \E n \in LeftOpen : sock' = sock + n
               /\ Goto("cr_report") /\ rot' = "failed" /\ warned' = TRUE
    /\ UNCHANGED <<argv, loopv, oracle, report, new_ip, slept, probe, sigs,
                   stopRuns, fatal>>

\* what SIGNAL NEWNYM can come to
NewnymOutcomes == {"250", "rejected", "timeout", "error"}

\* change_ip_windows: send, recv, close and the test of the reply; an exception
\* of send or recv skips the close
ChangeIpWindowsNewnym ==
    /\ Top = "cw_newnym"
    /\ \E o \in NewnymOutcomes :
          /\ IF o \in {"250", "rejected"}
             THEN sock' = sock - 1
             ELSE \E n \in LeftOpen : sock' = (sock - 1) + n
          /\ IF o = "250"
             THEN Goto("cw_settle") /\ rot' = "ok" /\ warned' = warned
             ELSE Goto("cr_report") /\ rot' = "failed" /\ warned' = TRUE
    /\ UNCHANGED <<argv, loopv, oracle, report, new_ip, slept, probe, sigs,
                   stopRuns, fatal>>

\* change_ip_windows after a 250 reply: time.sleep(2), then get_current_ip()
ChangeIpWindowsSettle ==
    /\ Top = "cw_settle"
    /\ Goto(ItrEntry)
    /\ ret' = "gci"
    /\ UNCHANGED <<argv, loopv, cyc, warned, running, daemonUp, path, sigs,
                   stopRuns, fatal>>

\* back in the loop: print_ip(new_ip) when there is an address; the cycle ends
CycleReport ==
    /\ Top = "cr_report"
    /\ report' = (new_ip = "ip")
    /\ done' = done + 1
    /\ Goto("cr_head")
    /\ UNCHANGED <<argv, started, sleep_time, rot, oracle, new_ip, sock, slept,
                   warned, probe, sigs, stopRuns, fatal>>

\* ---------------------------------------------------------- specification
\* every step of the program itself
Program ==
    \/ Import
    \/ setup_signal_handlers
    \/ ParseArgs
    \/ MainReturn
    \/ StopServicesEnter
    \/ SsTaskkill
    \/ SsService
    \/ SsPkill
    \/ SsReturn
    \/ EnsurePipCheck
    \/ EnsurePipEnsurepip
    \/ EnsurePipPackage
    \/ EnsurePipFail
    \/ EnsureRequests
    \/ EnsureTorCheck
    \/ EnsureTorInstall
    \/ EnsureTorFail
    \/ AutoFixDone
    \/ ItrPosix
    \/ ItrTasklist
    \/ ItrPsutil
    \/ ItrSocket
    \/ ItrFalse
    \/ get_current_ip
    \/ IpPrint
    \/ MainDeps
    \/ check_internet_connection
    \/ InitEnvStart
    \/ InitEnvAfter1
    \/ InitEnvAfter2
    \/ MainWait
    \/ CycleStart
    \/ LoopReturn
    \/ CycleSleep
    \/ ChangeIpReload
    \/ ChangeIpSettle
    \/ ChangeIpWindowsConnect
    \/ ChangeIpWindowsNewnym
    \/ ChangeIpWindowsSettle
    \/ CycleReport

Next == Signal \/ Program

\* the program with signals arriving at any moment
Spec == Init /\ [][Next]_vars

\* the program in a run in which no signal arrives
SpecNoInterrupt == Init /\ [][Program]_vars

TypeOK ==
    /\ platform \in {"windows", "linux"}
    /\ mode \in Modes \cup {"none"}
    /\ Len(stack) \in 1..(MaxSignals + 1)
    /\ exitCode \in {NoExit} \cup 0..11
    /\ interval_str \in Strs
    /\ started \in 0..(MaxCount + MaxCycles)
    /\ done <= started
    /\ sleep_time \in Nat
    /\ running \in {"True", "False", "None"}

\* ------------------------------------------------------------------ C1
\* A cycle can begin here (within the cycles the model follows)
CanStartCycle == ENABLED CycleStart

CanReturn == ENABLED LoopReturn

\* C1: with no interrupt and no fatal error change_ip_repeatedly performs
\* exactly count cycles and returns when count > 0, performs no cycle and
\* returns when count < 0, and does not return when count == 0: at the loop
\* test it can only begin another cycle.
C1_ExactlyCountCycles ==
    /\ (mode = "run" /\ Top = "main_return")
          => (count # 0 /\ done = (IF count > 0 THEN count ELSE 0))
    /\ (mode = "run" /\ count > 0) => started <= count
    /\ (mode = "run" /\ count < 0) => started = 0
    /\ (Top = "cr_head" /\ count > 0 /\ done < count) => (CanStartCycle /\ ~CanReturn)
    /\ (Top = "cr_head" /\ count # 0 /\ done >= count) => (CanReturn /\ ~CanStartCycle)
    /\ (Top = "cr_head" /\ count = 0)
          => (~CanReturn /\ (started < MaxCycles => CanStartCycle))

\* the loop has returned after MaxCount cycles of a run with --count MaxCount
C1_Witness ==
    /\ mode = "run" /\ Top = "main_return"
    /\ count = MaxCount /\ done = MaxCount /\ MaxCount > 1

\* ------------------------------------------------------------------ C9
\* The interval specs of the data model: a decimal integer, or two decimal
\* integers lo-hi around one hyphen with lo <= hi
FixedSpec(s) == Len(s) >= 1 /\ AllDigits(s)

RangeSpec(s) ==
    /\ HasHyphen(s)
    /\ Len(SplitLeft(s)) >= 1 /\ AllDigits(SplitLeft(s))
    /\ Len(SplitRight(s)) >= 1 /\ AllDigits(SplitRight(s))
    /\ DecVal(SplitLeft(s)) <= DecVal(SplitRight(s))

Lo(s) == DecVal(SplitLeft(s))

Hi(s) == DecVal(SplitRight(s))

\* the next step can begin a cycle whose delay is x
CanDraw(x) == ENABLED (CycleStart /\ sleep_time' = x)

\* C9: for a fixed spec N the delay of every cycle is N, for a range lo-hi it
\* lies in lo..hi, and at every loop test that begins a cycle each value of
\* lo..hi can be the delay of that cycle, whatever the delay before was.
C9_DelayPerCycle ==
    /\ (started >= 1 /\ FixedSpec(interval_str)) => sleep_time = DecVal(interval_str)
    /\ (started >= 1 /\ RangeSpec(interval_str))
          => sleep_time \in Lo(interval_str)..Hi(interval_str)
    /\ (Top = "cr_head" /\ CanStartCycle /\ FixedSpec(interval_str))
          => \A x \in 0..DecVal(interval_str) : CanDraw(x) <=> x = DecVal(interval_str)
    /\ (Top = "cr_head" /\ CanStartCycle /\ RangeSpec(interval_str))
          => \A x \in Lo(interval_str)..Hi(interval_str) : CanDraw(x)

\* a second cycle is about to begin after a cycle that slept hi, and lo can be drawn
C9_Witness ==
    /\ Top = "cr_head" /\ done = 1 /\ RangeSpec(interval_str)
    /\ Lo(interval_str) < Hi(interval_str)
    /\ sleep_time = Hi(interval_str)
    /\ CanDraw(Lo(interval_str))

\* ------------------------------------------------------------------ C2
\* C2: in a cycle whose rotate operation signalled failure the IP oracle is
\* not called and nothing is reported.
C2_NoOracleAfterFailedRotate ==
    (mode = "run" /\ rot = "failed") => (~oracle /\ ~report)

\* ------------------------------------------------------------------ C3
\* C3: once a signal has been delivered during a cycle, the loop performs no
\* rotate operation, no oracle call and no report, and begins no cycle.
C3_NothingAfterInterrupt ==
    [][(mode = "run" /\ intInCycle)
          => (/\ started' = started
              /\ rot' = rot
              /\ (oracle' => oracle)
              /\ (report' => report))]_vars

\* ------------------------------------------------------------------ C4
\* C4: a step of a cycle never ends the process, and a cycle that ends with a
\* failed rotate operation or without an address has emitted a warning.
C4_CycleErrorsRecoverable ==
    [][(mode = "run" /\ signals = 0 /\ InCycle)
          => (/\ exitCode' = NoExit
              /\ (stack'[1] = "cr_head" /\ (rot' = "failed" \/ new_ip' = "None"))
                    => warned')]_vars

\* ------------------------------------------------------------------ C5
\* C5: an interrupted run ends with status 0 after exactly one execution of
\* stop_services, whatever the cleanup steps come to.
C5_CleanupOnceExitZero ==
    (mode = "run" /\ signals >= 1 /\ Exited) => (stopRuns = 1 /\ exitCode = 0)

\* ------------------------------------------------------------------ C6
\* C6: an invocation with --stop ends with status 0 and begins no cycle.
C6_StopExitsZero ==
    (mode = "stop" /\ signals = 0) => (started = 0 /\ (Exited => exitCode = 0))

\* ------------------------------------------------------------------ C7
\* The interval specs the parser contract accepts; every other text is malformed
WellFormed(s) == FixedSpec(s) \/ RangeSpec(s)

\* C7: with a malformed --interval and no other fatal condition the process
\* ends with status 8, for every --count, before any sleep, rotate operation
\* or oracle call of the loop.
C7_MalformedIntervalExits8 ==
    (/\ mode = "run" /\ signals = 0 /\ Exited
     /\ fatalCond \in {"none", "interval"}
     /\ ~WellFormed(interval_str))
        => (exitCode = 8 /\ ~slept /\ rot = "none" /\ ~oracle)

\* ------------------------------------------------------------------ C8
\* C8: get_current_ip asks the oracle through the proxy when the daemon runs
\* and directly when it does not.
C8_PathFollowsDaemon ==
    (signals = 0 /\ path # "none") => path = (IF daemonUp THEN "tor" ELSE "direct")

\* ----------------------------------------------------------------- C10
\* C10: a process that met a fatal condition exits with the positive code of
\* that condition.
C10_ExitCodeOfCondition ==
    (signals = 0 /\ Exited /\ fatalCond # "none")
        => (exitCode = fatalCode /\ exitCode > 0)

\* the positions of a cycle at which its rotate operation runs or has run
RotatePcs == {"ci_reload", "ci_settle", "cw_connect", "cw_newnym", "cw_settle"}

\* the positions of a cycle inside get_current_ip() and the probe it starts with
InOracle ==
    \/ stack[1] = "gci"
    \/ (ret = "gci" /\ stack[1] \in {"itr_posix", "itr_tasklist", "itr_psutil",
                                     "itr_socket", "itr_false"})

\* C11: within every cycle of a run, the first one included, the steps come in
\* the order resolve-delay, sleep, rotate, oracle fetch, report: the rotate
\* operation is entered and has an outcome only after that cycle's sleep (whose
\* delay was resolved from the interval spec), the oracle is asked only after
\* that cycle's rotate has an outcome, and an address is reported only after
\* the oracle was asked.
C11_StepOrder ==
    mode = "run" =>
        /\ (stack[1] \in RotatePcs \/ rot # "none") => slept
        /\ slept => /\ started >= 1
                    /\ sleep_time \in parse_interval(interval_str)
        /\ (oracle \/ InOracle) => rot # "none"
        /\ report => oracle

\* the first cycle of a run has gone through all five steps
C11_Witness ==
    /\ mode = "run" /\ Top = "cr_head"
    /\ started = 1 /\ done = 1
    /\ slept /\ rot = "ok" /\ oracle /\ report

\* C12: the control-port rotate operation never leaves its connection open:
\* whenever a run is between two cycles (the outcome of the rotate is known and
\* the loop is about to report or to test its condition) or the process has
\* exited, no control connection opened by change_ip_windows is still open.
C12_NoConnectionLeftOpen ==
    (mode = "run" /\ (Exited \/ stack[1] \in {"cr_report", "cr_head"}))
        => sock = 0

====
